---- MODULE Spec2Model ----
(***************************************************************************)
(* Model of src/solar-tracker/src/components/SolarTrackerSimulator.tsx:    *)
(* the solar ephemeris (calculateSunPosition), the panel pose              *)
(* (getPanelNormal, PanelAssembly), the incidence metrics (Metrics) and    *)
(* the form handlers of SolarTrackerSimulator.                             *)
(*                                                                         *)
(* Numbers.  A JavaScript number is carried as a fixed-point integer: the  *)
(* real value times Scale, every operation rounding to the nearest         *)
(* representable value as IEEE arithmetic does.  Degrees, radians, minutes *)
(* and the dimensionless trigonometric values all use Scale; the Julian    *)
(* century uses TScale because a day is 2.7e-5 century.  The value NaN is  *)
(* the one not-a-number value, and every operator that can meet it         *)
(* propagates it as JavaScript does.                                       *)
(***************************************************************************)
EXTENDS Integers, Sequences, FiniteSets, TLC

Scale == 10^4
TScale == 10^8
NaN == -(2^30)

IsNaN(x) == x = NaN

Abs(n) == IF n < 0 THEN -n ELSE n

\* n / d rounded to the nearest integer, halves upwards; d # 0.
RoundDiv(n, d) ==
    LET nn == IF d < 0 THEN -n ELSE n
        dd == Abs(d)
    IN  (nn + dd \div 2) \div dd

\* round(a * b / c) for c > 0 without leaving 32 bits: a is split at c.
MulDiv(a, b, c) == (a \div c) * b + RoundDiv((a % c) * b, c)

\* JavaScript's %: the remainder takes the sign of the dividend.
JsRem(a, b) == IF a >= 0 THEN a % b ELSE -((-a) % b)

\* Math.floor(a / b) on integers a and b > 0.
MathFloorDiv(a, b) == a \div b

\* Fixed-point product a * b; |b| is below 10 (a trigonometric value, a
\* coefficient), a may be large.
Mul(a, b) == MulDiv(a, b, Scale)

\* Fixed-point quotient a / b, b # 0, |a| below 20.
Div(a, b) == RoundDiv(a * Scale, b)

--------------------------------------------------------------------------
(* Math.PI, Math.sin, Math.cos, Math.acos, Math.asin, Math.tan on radians  *)
(* at Scale.  The sine is tabulated every 0.01 rad on [0, pi/2] and        *)
(* interpolated linearly, which keeps it within [-1, 1] and monotone.      *)

MathPI == 31416
HalfPi == MathPI \div 2
TwoPi == 2 * MathPI

SinTable ==
    << 0, 100, 200, 300, 400, 500, 600, 699, 799, 899, 998, 1098, 1197,
       1296, 1395, 1494, 1593, 1692, 1790, 1889, 1987, 2085, 2182, 2280,
       2377, 2474, 2571, 2667, 2764, 2860, 2955, 3051, 3146, 3240, 3335,
       3429, 3523, 3616, 3709, 3802, 3894, 3986, 4078, 4169, 4259, 4350,
       4439, 4529, 4618, 4706, 4794, 4882, 4969, 5055, 5141, 5227, 5312,
       5396, 5480, 5564, 5646, 5729, 5810, 5891, 5972, 6052, 6131, 6210,
       6288, 6365, 6442, 6518, 6594, 6669, 6743, 6816, 6889, 6961, 7033,
       7104, 7174, 7243, 7311, 7379, 7446, 7513, 7578, 7643, 7707, 7771,
       7833, 7895, 7956, 8016, 8076, 8134, 8192, 8249, 8305, 8360, 8415,
       8468, 8521, 8573, 8624, 8674, 8724, 8772, 8820, 8866, 8912, 8957,
       9001, 9044, 9086, 9128, 9168, 9208, 9246, 9284, 9320, 9356, 9391,
       9425, 9458, 9490, 9521, 9551, 9580, 9608, 9636, 9662, 9687, 9711,
       9735, 9757, 9779, 9799, 9819, 9837, 9854, 9871, 9887, 9901, 9915,
       9927, 9939, 9949, 9959, 9967, 9975, 9982, 9987, 9992, 9995, 9998,
       9999, 10000, 10000 >>

\* sin on [0, pi/2].
SinQuadrant(r) ==
    LET i == r \div 100
        f == r % 100
    IN  SinTable[i + 1] + RoundDiv((SinTable[i + 2] - SinTable[i + 1]) * f, 100)

\* sin on [0, pi].
SinHalfTurn(r) == IF r > HalfPi THEN SinQuadrant(MathPI - r) ELSE SinQuadrant(r)

MathSin(x) ==
    IF IsNaN(x) THEN NaN
    ELSE LET r == x % TwoPi
         IN  IF r <= MathPI THEN SinHalfTurn(r) ELSE -SinHalfTurn(r - MathPI)

MathCos(x) == IF IsNaN(x) THEN NaN ELSE MathSin(x + HalfPi)

MathTan(x) == Div(MathSin(x), MathCos(x))

MathMinInt(a, b) == IF a < b THEN a ELSE b

\* The largest index in lo..hi whose table entry is at most s; SinTable[lo] <= s.
RECURSIVE TableSearch(_, _, _)
TableSearch(s, lo, hi) ==
    IF lo >= hi THEN lo
    ELSE LET mid == (lo + hi + 1) \div 2
         IN  IF SinTable[mid] <= s THEN TableSearch(s, mid, hi)
             ELSE TableSearch(s, lo, mid - 1)

\* asin on [0, 1] between the table entries i and i + 1, SinTable[i] <= s.
AsinBetween(s, i) ==
    IF i >= Len(SinTable) \/ SinTable[i + 1] = SinTable[i] THEN (i - 1) * 100
    ELSE (i - 1) * 100 + RoundDiv((s - SinTable[i]) * 100, SinTable[i + 1] - SinTable[i])

\* asin on [0, 1]: the table read backwards, interpolated, at most pi/2.
AsinQuadrant(s) == MathMinInt(AsinBetween(s, TableSearch(s, 1, Len(SinTable))), HalfPi)

\* Math.asin: NaN outside [-1, 1].
MathAsin(s) ==
    IF IsNaN(s) \/ s > Scale \/ s < -Scale THEN NaN
    ELSE IF s >= 0 THEN AsinQuadrant(s)
    ELSE -AsinQuadrant(-s)

\* Math.acos: NaN outside [-1, 1].
MathAcos(c) == IF IsNaN(MathAsin(c)) THEN NaN ELSE HalfPi - MathAsin(c)

\* Math.min and Math.max return NaN when an argument is NaN.
MathMin(a, b) == IF IsNaN(a) \/ IsNaN(b) THEN NaN ELSE IF a < b THEN a ELSE b

MathMax(a, b) == IF IsNaN(a) \/ IsNaN(b) THEN NaN ELSE IF a > b THEN a ELSE b

\* Math.abs.
MathAbs(a) == IF IsNaN(a) THEN NaN ELSE Abs(a)

\* a > b in JavaScript: false when an operand is NaN.
JsGt(a, b) == ~IsNaN(a) /\ ~IsNaN(b) /\ a > b

\* a - b, a + b and a * b with NaN propagated.
JsSub(a, b) == IF IsNaN(a) \/ IsNaN(b) THEN NaN ELSE a - b

JsAdd(a, b) == IF IsNaN(a) \/ IsNaN(b) THEN NaN ELSE a + b

JsMul(a, b) == IF IsNaN(a) \/ IsNaN(b) THEN NaN ELSE Mul(a, b)

\* const degToRad = (deg) => (deg * Math.PI) / 180
\* (the fraction pi/180 is reduced by 8 to keep the product in 32 bits)
degToRad(deg) ==
    IF IsNaN(deg) THEN NaN ELSE MulDiv(deg, MathPI \div 8, (180 * Scale) \div 8)

\* const radToDeg = (rad) => (rad * 180) / Math.PI
radToDeg(rad) ==
    IF IsNaN(rad) THEN NaN ELSE MulDiv(rad, (180 * Scale) \div 8, MathPI \div 8)

\* function normalizeAngle(angle)
normalizeAngle(angle) ==
    IF IsNaN(angle) THEN NaN
    ELSE LET normalized == JsRem(angle, 360 * Scale)
         IN  IF normalized < 0 THEN normalized + 360 * Scale ELSE normalized

--------------------------------------------------------------------------
(* The JavaScript Date of line 46.  `${date}T${time}:00` has no zone       *)
(* designator, so new Date(...) reads it as local time of the machine the  *)
(* page runs on.  A Date is the count of minutes since 1970-01-01T00:00Z;  *)
(* tz is the machine's offset from UTC in minutes (east positive).         *)

\* Days from 1970-01-01 to the civil date y-m-d (proleptic Gregorian).
DaysFromCivil(y, m, d) ==
    LET yy == IF m <= 2 THEN y - 1 ELSE y
        era == yy \div 400
        yoe == yy - era * 400
        mp == IF m > 2 THEN m - 3 ELSE m + 9
        doy == (153 * mp + 2) \div 5 + d - 1
        doe == yoe * 365 + yoe \div 4 - yoe \div 100 + doy
    IN  era * 146097 + doe - 719468

\* The civil date of the day z days after 1970-01-01.
CivilFromDays(z) ==
    LET zz == z + 719468
        era == zz \div 146097
        doe == zz - era * 146097
        yoe == (doe - doe \div 1460 + doe \div 36524 - doe \div 146096) \div 365
        doy == doe - (365 * yoe + yoe \div 4 - yoe \div 100)
        mp == (5 * doy + 2) \div 153
        d == doy - (153 * mp + 2) \div 5 + 1
        m == IF mp < 10 THEN mp + 3 ELSE mp - 9
    IN  [year |-> yoe + era * 400 + (IF m <= 2 THEN 1 ELSE 0), month |-> m, day |-> d]

\* new Date(`${date}T${time}:00`) on a machine at offset tz.
NewDate(date, time, tz) ==
    DaysFromCivil(date.year, date.month, date.day) * 1440
        + time.hour * 60 + time.minute - tz

\* The local-time getters read the instant at the machine's offset.
getHours(t, tz) == ((t + tz) % 1440) \div 60

getMinutes(t, tz) == (t + tz) % 60

\* The string always ends in :00.
getSeconds(t, tz) == 0

\* The UTC getters.
getUTCFullYear(t) == CivilFromDays(t \div 1440).year

\* getUTCMonth() is zero-based.
getUTCMonth(t) == CivilFromDays(t \div 1440).month - 1

getUTCDate(t) == CivilFromDays(t \div 1440).day

getUTCHours(t) == (t % 1440) \div 60

getUTCMinutes(t) == t % 60

--------------------------------------------------------------------------
(* calculateSunPosition, lines 45-199.  Each local of the function is an   *)
(* operator of the locals it is computed from; SunCalc chains them in the  *)
(* order of the source.                                                    *)

\* c * T for a fixed-point c and the Julian century T (at TScale), T split
\* at Scale so that no product leaves 32 bits.
TMul(c, T) ==
    MulDiv(c, T \div Scale, Scale) + RoundDiv(MulDiv(c, T % Scale, Scale), Scale)

\* Lines 53-58 and 74: what the function reads from dateTime.
ClockOf(dateTime, tz) ==
    [totalMinutes |->
        (getHours(dateTime, tz) * 60 + getMinutes(dateTime, tz)) * Scale
            + RoundDiv(getSeconds(dateTime, tz) * Scale, 60),
     year |-> getUTCFullYear(dateTime),
     month |-> getUTCMonth(dateTime) + 1,
     day |-> getUTCDate(dateTime),
     utcHours |-> getUTCHours(dateTime),
     utcMinutes |-> getUTCMinutes(dateTime)]

\* Lines 60-62: A, Y and M of the day-number formula.
julianA(month) == MathFloorDiv(14 - month, 12)

julianY(year, month) == year + 4800 - julianA(month)

julianM(month) == month + 12 * julianA(month) - 3

\* Lines 63-70 with every fourth year a leap year: the century terms
\* floor(Y / 100) and floor(Y / 400) replaced by their value for 2000.
julianDayEveryFourthYear(Y, M, day) ==
    day + MathFloorDiv(153 * M + 2, 5) + 365 * Y + MathFloorDiv(Y, 4) - 51 - 32045

\* Lines 63-70 on Y, M and day.
julianDayOf(Y, M, day) ==
    day
    + MathFloorDiv(153 * M + 2, 5)
    + 365 * Y
    + MathFloorDiv(Y, 4)
    - MathFloorDiv(Y, 100)
    + MathFloorDiv(Y, 400)
    - 32045

\* Lines 60-70: the Julian Day Number of the calendar day year-month-day.
julianDay(year, month, day) == julianDayOf(julianY(year, month), julianM(month), day)

\* Line 76's epoch, the Julian Day of 2000-01-01T12:00Z.
J2000 == 2451545

\* Lines 72-76: julianDayWithTime - 2451545 in days at Scale.  The integer
\* days are subtracted before the fraction is added: the sum itself, 2.4e6
\* days at Scale, does not fit 32 bits.
daysSinceJ2000(jd, utcHours, utcMinutes, utcOffset) ==
    (jd - J2000) * Scale
        + RoundDiv(utcHours * Scale - utcOffset + RoundDiv(utcMinutes * Scale, 60), 24)
        - Scale \div 2

\* Line 76: julianCentury at TScale.
julianCenturyOf(days) == MulDiv(days, TScale \div Scale, 36525)

\* x || 0: NaN (and 0) become 0.
OrZero(x) == IF IsNaN(x) THEN 0 ELSE x

\* Lines 78-81: 280.46646 + T * (36000.76983 + 0.0003032 * T)
geomMeanLongSunOf(T) ==
    OrZero(normalizeAngle(2804665 + TMul(360007698 + TMul(3, T), T)))

\* Lines 83-84: 357.52911 + T * (35999.05029 - 0.0001537 * T)
geomMeanAnomSunOf(T) == 3575291 + TMul(359990503 - TMul(2, T), T)

\* Lines 86-88: 0.016708634 - T * (0.000042037 + 0.0000001267 * T)
eccentEarthOrbitOf(T) == 167 - TMul(0 + TMul(0, T), T)

\* Lines 90-95 on the anomaly M: the coefficients are
\* 1.914602 - T * (0.004817 + 0.000014 * T), 0.019993 - 0.000101 * T, 0.000289.
sunEqOfCenterAt(T, M) ==
    Mul(MathSin(degToRad(M)), 19146 - TMul(48 + TMul(0, T), T))
        + Mul(MathSin(degToRad(2 * M)), 200 - TMul(1, T))
        + Mul(MathSin(degToRad(3 * M)), 3)

sunEqOfCenterOf(T) == sunEqOfCenterAt(T, geomMeanAnomSunOf(T))

\* Line 97.
sunTrueLongOf(T) == geomMeanLongSunOf(T) + sunEqOfCenterOf(T)

\* Lines 101 and 114: 125.04 - 1934.136 * T
omegaOf(T) == 1250400 - TMul(19341360, T)

\* Lines 98-101: sunTrueLong - 0.00569 - 0.00478 * sin(omega)
sunAppLongOf(T) == sunTrueLongOf(T) - 57 - Mul(48, MathSin(degToRad(omegaOf(T))))

\* Lines 103-109:
\* 23 + (26 + (21.448 - T * (46.815 + T * (0.00059 - T * 0.001813)))) / 60
meanObliqEclipticOf(T) ==
    23 * Scale
        + RoundDiv(26 * Scale
                    + (214480 - TMul(468150 + TMul(6 - TMul(18, T), T), T)), 60)

\* Lines 111-114: meanObliqEcliptic + 0.00256 * cos(omega)
obliqCorrOf(T) == meanObliqEclipticOf(T) + Mul(26, MathCos(degToRad(omegaOf(T))))

\* Lines 116-121.
sunDeclinationOf(T) ==
    radToDeg(MathAsin(Mul(MathSin(degToRad(obliqCorrOf(T))),
                          MathSin(degToRad(sunAppLongOf(T))))))

Square(x) == Mul(x, x)

\* Lines 122-124.
varYOf(T) == Square(MathTan(degToRad(RoundDiv(obliqCorrOf(T), 2))))

\* Lines 126-144 on the locals the sum reads.
eqOfTimeAt(varY, eccentEarthOrbit, sinAnom, longRad, sinTwoAnom) ==
    4 * radToDeg(
        Mul(varY, MathSin(2 * longRad))
        - Mul(2 * eccentEarthOrbit, sinAnom)
        + Mul(Mul(Mul(4 * eccentEarthOrbit, varY), sinAnom), MathCos(2 * longRad))
        - Mul(Mul(Mul(Scale \div 2, varY), varY), MathSin(4 * longRad))
        - Mul(Mul(Mul(12500, eccentEarthOrbit), eccentEarthOrbit), sinTwoAnom))

eqOfTimeOf(T) ==
    eqOfTimeAt(varYOf(T), eccentEarthOrbitOf(T),
               MathSin(degToRad(geomMeanAnomSunOf(T))),
               degToRad(geomMeanLongSunOf(T)),
               MathSin(2 * degToRad(geomMeanAnomSunOf(T))))

\* Lines 146-147: the true solar time before it is wrapped.
trueSolarTimeRaw(totalMinutes, eqOfTime, longitude, timeZone) ==
    totalMinutes + eqOfTime + 4 * longitude - 60 * timeZone

\* Line 148 with a single %: trueSolarTime % 1440.
trueSolarTimeOnce(raw) == JsRem(raw, 1440 * Scale)

\* Line 148: ((trueSolarTime % 1440) + 1440) % 1440
trueSolarTimeOf(raw) == JsRem(JsRem(raw, 1440 * Scale) + 1440 * Scale, 1440 * Scale)

\* Line 151: if (hourAngle < -180) hourAngle += 360
hourAngleWrap(hourAngle) ==
    IF hourAngle < -180 * Scale THEN hourAngle + 360 * Scale ELSE hourAngle

\* Lines 150-151.  A division by 4 is exact in binary floating point, so
\* the quotient is below 360 whenever trueSolarTime is below 1440; the
\* fixed-point quotient is taken downwards, which keeps that order, where
\* rounding to the nearest would lift 1439.9999 / 4 to 360.
hourAngleOf(trueSolarTime) ==
    hourAngleWrap(MathFloorDiv(trueSolarTime, 4) - 180 * Scale)

\* Lines 157-159.
cosZenithOf(latRad, declRad, haRad) ==
    Mul(MathSin(latRad), MathSin(declRad))
        + Mul(Mul(MathCos(latRad), MathCos(declRad)), MathCos(haRad))

\* Line 160: zenith (radians) from cosZenith.
zenithOf(cosZenith) == MathMin(MathAcos(MathMax(cosZenith, -Scale)), MathPI)

\* Line 161.
elevationOf(zenith) == JsSub(90 * Scale, radToDeg(zenith))

\* Lines 163-164.
azDenominatorOf(latRad, zenith) == JsMul(MathCos(latRad), MathSin(zenith))

\* Line 166's threshold, 0.001 at Scale.
AzDenominatorMin == 10

\* Lines 178-180: the azimuth reflected when the hour angle is positive.
azimuthReflect(azRad, haRad) == IF MathSin(haRad) > 0 THEN 2 * MathPI - azRad ELSE azRad

\* Lines 167-181: the branch taken when the denominator is large enough.
azimuthByAcos(latRad, declRad, haRad, zenith, azDenominator) ==
    normalizeAngle(radToDeg(azimuthReflect(
        MathAcos(MathMin(MathMax(
            Div(Mul(MathSin(latRad), MathCos(zenith)) - MathSin(declRad), azDenominator),
            -Scale), Scale)),
        haRad)))

\* Lines 165-182 on the denominator of lines 163-164.
azimuthFrom(latRad, declRad, haRad, zenith, azDenominator) ==
    IF JsGt(MathAbs(azDenominator), AzDenominatorMin)
    THEN azimuthByAcos(latRad, declRad, haRad, zenith, azDenominator)
    ELSE 0

\* Lines 163-182: the azimuth in degrees.
azimuthOf(latRad, declRad, haRad, zenith) ==
    azimuthFrom(latRad, declRad, haRad, zenith, azDenominatorOf(latRad, zenith))

\* Line 184's floor of the elevation, -5 degrees.
ElevationFloor == -5 * Scale

\* Line 184.
elevationClampedOf(elevation) == MathMax(elevation, ElevationFloor)

\* Math.sqrt on a non-negative integer: the nearest integer below.
RECURSIVE SqrtSearch(_, _, _)
SqrtSearch(n, lo, hi) ==
    IF lo >= hi THEN lo
    ELSE IF ((lo + hi + 1) \div 2) * ((lo + hi + 1) \div 2) <= n
         THEN SqrtSearch(n, (lo + hi + 1) \div 2, hi)
    ELSE SqrtSearch(n, lo, (lo + hi + 1) \div 2 - 1)

MathSqrt(n) == SqrtSearch(n, 0, 3 * Scale)

\* THREE.Vector3.length().
Vector3Length(v) == MathSqrt(v.x * v.x + v.y * v.y + v.z * v.z)

\* THREE.Vector3.divideScalar().
Vector3DivideScalar(v, scalar) ==
    [x |-> Div(v.x, scalar), y |-> Div(v.y, scalar), z |-> Div(v.z, scalar)]

\* length() || 1
OrOne(len) == IF len = 0 THEN Scale ELSE len

\* THREE.Vector3.normalize(): divideScalar(length() || 1).
Vector3Normalize(v) ==
    IF IsNaN(v.x) \/ IsNaN(v.y) \/ IsNaN(v.z) THEN [x |-> NaN, y |-> NaN, z |-> NaN]
    ELSE Vector3DivideScalar(v, OrOne(Vector3Length(v)))

\* Lines 188-192 and 207-211: the unit vector of (azimuth, elevation) or
\* (yaw, pitch), both in radians.
DirectionVector(azRad, elRad) ==
    Vector3Normalize([x |-> JsMul(MathSin(azRad), MathCos(elRad)),
                      y |-> MathSin(elRad),
                      z |-> JsMul(MathCos(azRad), MathCos(elRad))])

\* The locals c of the function with the locals r computed after them.
With(c, r) == r @@ c

\* Lines 46-58.
SunCalcClock(st, tz) == ClockOf(NewDate(st.date, st.time, tz), tz)

\* Lines 60-70.
SunCalcDay(c) == With(c, [julianDay |-> julianDay(c.year, c.month, c.day)])

\* Lines 72-76.
SunCalcCentury(st, c) ==
    With(c, [julianCentury |->
                julianCenturyOf(daysSinceJ2000(c.julianDay, c.utcHours, c.utcMinutes,
                                               st.utcOffset))])

\* Lines 78-144.
SunCalcSeries(c) ==
    With(c, [sunDeclination |-> sunDeclinationOf(c.julianCentury),
             eqOfTime |-> eqOfTimeOf(c.julianCentury)])

\* Lines 146-147; the time zone is the utcOffset field (line 49).
SunCalcSolarTime(st, c) ==
    With(c, [tst0 |-> trueSolarTimeRaw(c.totalMinutes, c.eqOfTime, st.longitude,
                                       st.utcOffset)])

\* Line 148.
SunCalcWrap(c) == With(c, [trueSolarTime |-> trueSolarTimeOf(c.tst0)])

\* Lines 150-151.
SunCalcHourAngle(c) == With(c, [hourAngle |-> hourAngleOf(c.trueSolarTime)])

\* Lines 153-155.
SunCalcRadians(st, c) ==
    With(c, [haRad |-> degToRad(c.hourAngle),
             latRad |-> degToRad(st.latitude),
             declRad |-> degToRad(c.sunDeclination)])

\* Lines 157-159.
SunCalcCosZenith(c) == With(c, [cosZenith |-> cosZenithOf(c.latRad, c.declRad, c.haRad)])

\* Line 160.
SunCalcZenith(c) == With(c, [zenith |-> zenithOf(c.cosZenith)])

\* Lines 161-184.
SunCalcAngles(c) ==
    With(c, [azDenominator |-> azDenominatorOf(c.latRad, c.zenith),
             azimuth |-> azimuthOf(c.latRad, c.declRad, c.haRad, c.zenith),
             elevation |-> elevationClampedOf(elevationOf(c.zenith))])

\* Lines 185-192.
SunCalcVector(c) ==
    With(c, [vector |-> DirectionVector(degToRad(c.azimuth), degToRad(c.elevation))])

\* Lines 45-199 on a machine at offset tz.  The record holds the
\* function's locals; azimuth, elevation and vector are what it returns.
SunCalc(st, tz) ==
    SunCalcVector(SunCalcAngles(SunCalcZenith(SunCalcCosZenith(SunCalcRadians(st,
        SunCalcHourAngle(SunCalcWrap(SunCalcSolarTime(st,
            SunCalcSeries(SunCalcCentury(st, SunCalcDay(SunCalcClock(st, tz))))))))))))

\* Lines 194-198: what the function returns.
SunPositionOf(c) == [azimuth |-> c.azimuth, elevation |-> c.elevation, vector |-> c.vector]

\* function calculateSunPosition(state): SunPosition, on a machine at tz.
calculateSunPosition(st, tz) == SunPositionOf(SunCalc(st, tz))

--------------------------------------------------------------------------
(* getPanelNormal, PanelAssembly and Metrics.                              *)

\* Lines 204-217: the pose of the panel with its normal.
PanelPose(pitch, yaw) ==
    [vector |-> DirectionVector(degToRad(yaw), degToRad(pitch)),
     pitch |-> pitch, yaw |-> yaw]

\* The pose getPanelNormal would return if it ignored the tracking mode.
getPanelNormalManual(st, sunPos) == PanelPose(st.manualPitch, st.manualYaw)

\* Lines 201-218.
getPanelNormal(st, sunPos) ==
    PanelPose(IF st.trackingMode = "auto" THEN sunPos.elevation ELSE st.manualPitch,
              IF st.trackingMode = "auto" THEN sunPos.azimuth ELSE st.manualYaw)

\* Lines 229-231 on the normalised yaw and the clamped pitch.
PanelAngles(yawNormalized, pitchClamped) ==
    [yaw |-> yawNormalized, yawRad |-> degToRad(yawNormalized),
     pitch |-> pitchClamped, pitchRad |-> degToRad(pitchClamped)]

\* PanelAssembly without line 229's normalizeAngle.
PanelAssemblyUnnormalized(pitch, yaw) ==
    PanelAngles(yaw, MathMin(MathMax(pitch, 0), 90 * Scale))

\* PanelAssembly without line 230's clamp.
PanelAssemblyUnclamped(pitch, yaw) == PanelAngles(normalizeAngle(yaw), pitch)

\* Lines 228-231: the angles PanelAssembly gives the two rotation groups
\* (lines 240 and 246).
PanelAssembly(pitch, yaw) ==
    PanelAngles(normalizeAngle(yaw), MathMin(MathMax(pitch, 0), 90 * Scale))

\* THREE.Vector3.dot.
Vector3Dot(a, b) ==
    JsAdd(JsAdd(JsMul(a.x, b.x), JsMul(a.y, b.y)), JsMul(a.z, b.z))

\* Line 331 without Math.max: the cosine itself.
MetricsUnfloored(angle) ==
    [angleDeg |-> radToDeg(angle), effectiveIrradiance |-> MathCos(angle)]

\* Lines 330-331 on the angle of line 329.
MetricsOf(angle) ==
    [angleDeg |-> radToDeg(angle), effectiveIrradiance |-> MathMax(0, MathCos(angle))]

\* Lines 327-331.
Metrics(sunVector, panelNormal) ==
    MetricsOf(MathAcos(MathMin(MathMax(Vector3Dot(sunVector, panelNormal), -Scale), Scale)))

--------------------------------------------------------------------------
(* The values the model draws the inputs from.                             *)

\* The manual sliders are stepped in YawSteps and PitchSteps equal parts of
\* their ranges 0..360 (lines 580-581) and 0..90 (lines 600-601).
YawSteps == 2
PitchSteps == 2

\* The machine's offset from UTC, in minutes: UTC-1, UTC, UTC+1.
MachineOffsets == {-60, 0, 60}

\* The "Offset UTC" field, in hours.
UtcOffsetInputs == {-Scale, 0, Scale}

\* Paris (line 374), the north pole, and a latitude close to the
\* declination of the sun on 21 January.
LatitudeInputs == {488566, 90 * Scale, -201000}

\* Paris (line 375) and 3 degrees east.
LongitudeInputs == {23522, 30000}

DateInputs ==
    {[year |-> 2024, month |-> 1, day |-> 21],
     [year |-> 2023, month |-> 12, day |-> 31]}

TimeInputs == {[hour |-> 12, minute |-> 0], [hour |-> 23, minute |-> 30]}

\* The instant the page is opened: 2024-06-21T12:00Z.
NowInputs == {NewDate([year |-> 2024, month |-> 6, day |-> 21], [hour |-> 12, minute |-> 0], 0)}

ManualYawInputs == {(360 * Scale * k) \div YawSteps : k \in 0..YawSteps}

ManualPitchInputs == {(90 * Scale * k) \div PitchSteps : k \in 0..PitchSteps}

AlbedoInputs == {4500, 1000}

PanelWidthInputs == {20000, 25000}

PanelHeightInputs == {12000, 5000}

PanelElevationInputs == {12000, 20000}

\* Lines 369-387: the initial state of a page opened at instant now on a
\* machine at offset tz.  The date is the UTC date (toISOString), the time
\* the local time (toTimeString).
InitialState(now, tz) ==
    [latitude |-> 488566,
     longitude |-> 23522,
     utcOffset |-> RoundDiv(tz * Scale, 60),
     date |-> CivilFromDays(now \div 1440),
     time |-> [hour |-> getHours(now, tz), minute |-> getMinutes(now, tz)],
     trackingMode |-> "auto",
     manualPitch |-> 30 * Scale,
     manualYaw |-> 180 * Scale,
     panelWidth |-> 20000,
     panelHeight |-> 12000,
     panelElevation |-> 12000,
     albedo |-> 4500]

LatitudeSpace == LatitudeInputs \cup {488566}

LongitudeSpace == LongitudeInputs \cup {23522}

DateSpace == DateInputs \cup {CivilFromDays(now \div 1440) : now \in NowInputs}

TimeSpace ==
    TimeInputs \cup {[hour |-> getHours(now, tz), minute |-> getMinutes(now, tz)] :
                        now \in NowInputs, tz \in MachineOffsets}

ManualPitchSpace == ManualPitchInputs \cup {30 * Scale}

ManualYawSpace == ManualYawInputs \cup {180 * Scale}

\* Lines 619 and 645-647: what a render shows of the sun position s and
\* the panel pose p.
DeriveFrom(s, p) ==
    [sun |-> s, panel |-> p,
     assembly |-> PanelAssembly(p.pitch, p.yaw),
     metrics |-> Metrics(s.vector, p.vector)]

\* Lines 389-390, 619 and 645-647: what one render derives from the state
\* st, whose sun position is s.
Derive(st, s) == DeriveFrom(s, getPanelNormal(st, s))

\* A function with its values computed once.
Tabulated(f) == f @@ <<>>

\* Derive tabulated over the three fields getPanelNormal reads.
PoseTable(s) ==
    Tabulated([mode \in {"auto", "manual"} |->
     Tabulated([pitch \in ManualPitchSpace |->
      Tabulated([yaw \in ManualYawSpace |->
        Derive([trackingMode |-> mode, manualPitch |-> pitch, manualYaw |-> yaw], s)])])])

\* The locals of calculateSunPosition with the renders of its result.
RenderEntry(c) == [calc |-> c, poses |-> PoseTable(SunPositionOf(c))]

\* SunCalc and Derive tabulated over the states the model can reach: both
\* are pure functions, evaluated once per input and machine offset.
RenderTable ==
    Tabulated([tz \in MachineOffsets |->
     Tabulated([lat \in LatitudeSpace |->
      Tabulated([lon \in LongitudeSpace |->
       Tabulated([off \in UtcOffsetInputs |->
        Tabulated([date \in DateSpace |->
         Tabulated([time \in TimeSpace |->
            RenderEntry(SunCalc([latitude |-> lat, longitude |-> lon, utcOffset |-> off,
                                 date |-> date, time |-> time], tz))])])])])])])

\* SunCalc(st, tz), read from the table.
SunCalcOf(st, tz) ==
    RenderTable[tz][st.latitude][st.longitude][st.utcOffset][st.date][st.time].calc

\* Derive(st, calculateSunPosition(st, tz)), read from the table.
DeriveOf(st, tz) ==
    RenderTable[tz][st.latitude][st.longitude][st.utcOffset][st.date][st.time]
        .poses[st.trackingMode][st.manualPitch][st.manualYaw]

--------------------------------------------------------------------------
(* The component SolarTrackerSimulator: one state object, and what a       *)
(* render derives from it (lines 389-390, 619, 645-651).                   *)

VARIABLES
    state,        \* the SolarState of useState (line 369)
    machineTz,    \* the machine's offset from UTC in minutes
    sun,          \* line 389
    panel,        \* line 390
    assembly,     \* the angles PanelAssembly applies (lines 229-231)
    metrics,      \* what Metrics shows (lines 328-331)
    cal,          \* SpecJulianDay: the calendar day of lines 56-58
    dayNumber,    \* SpecJulianDay: the days counted from 2000-01-01
    computedDay,  \* SpecJulianDay: julianDay of lines 60-70 for cal
    shownSun,     \* SpecMetrics: the sun.vector given to Metrics
    shownNormal,  \* SpecMetrics: the panelNormal given to Metrics
    incidence,    \* SpecMetrics: what Metrics computed
    solarRaw,     \* SpecSolarTime: trueSolarTime of lines 146-147
    solarTime,    \* SpecSolarTime: trueSolarTime after line 148
    solarHourAngle \* SpecSolarTime: hourAngle after line 151

componentVars == <<state, machineTz, sun, panel, assembly, metrics>>
calendarVars == <<cal, dayNumber, computedDay>>
metricsVars == <<shownSun, shownNormal, incidence>>
solarVars == <<solarRaw, solarTime, solarHourAngle>>
vars == <<state, machineTz, sun, panel, assembly, metrics, cal, dayNumber,
          computedDay, shownSun, shownNormal, incidence, solarRaw, solarTime,
          solarHourAngle>>

\* useMemo with an empty dependency list: the value of the first render
\* for ever.
useMemoOnce(cached, sameDeps, fresh) == cached

\* React's useMemo on a re-render: the cached value when every dependency
\* is the object it was at the render before (Object.is), the freshly
\* computed one otherwise.
useMemo(cached, sameDeps, fresh) == IF sameDeps THEN cached ELSE fresh

\* Line 390's getPanelNormal(st, s): the table's pose when s is the sun the
\* table holds for st.
PoseOf(st, s, tabled) ==
    IF s = tabled.sun THEN tabled.panel ELSE getPanelNormal(st, s)

\* Lines 619 and 645-647 on the sun s and the pose p: the table's entry
\* when they are the ones it holds.
Rendered(s, p, tabled) ==
    IF s = tabled.sun /\ p = tabled.panel THEN tabled ELSE DeriveFrom(s, p)

\* Lines 389-390, 619 and 645-651: a re-render of the component with the
\* state st; sameState tells whether st is the object the render before
\* had, and tabled is the table's entry for st.  Line 390 depends on the
\* state and on the sun, which is the object it was when line 389's memo
\* returned the cached one.
RenderWith(st, sameState, tabled) ==
    /\ sun' = useMemo(sun, sameState, tabled.sun)
    /\ panel' = useMemo(panel, sameState /\ useMemo(TRUE, sameState, FALSE),
                        PoseOf(st, sun', tabled))
    /\ assembly' = Rendered(sun', panel', tabled).assembly
    /\ metrics' = Rendered(sun', panel', tabled).metrics

Render(st, sameState) == RenderWith(st, sameState, DeriveOf(st, machineTz))

Epoch == [year |-> 2000, month |-> 1, day |-> 1]

NotShown == [shown |-> FALSE, angleDeg |-> 0, effectiveIrradiance |-> 0]

UnitY == [x |-> 0, y |-> Scale, z |-> 0]

\* Lines 146-151 on the sum t of lines 146-147.
SolarInit(t) ==
    /\ solarRaw = t
    /\ solarTime = trueSolarTimeOf(t)
    /\ solarHourAngle = hourAngleOf(trueSolarTimeOf(t))

ComponentInit ==
    /\ machineTz \in MachineOffsets
    /\ \E now \in NowInputs : state = InitialState(now, machineTz)
    /\ sun = DeriveOf(state, machineTz).sun
    /\ panel = DeriveOf(state, machineTz).panel
    /\ assembly = DeriveOf(state, machineTz).assembly
    /\ metrics = DeriveOf(state, machineTz).metrics

Init ==
    /\ ComponentInit
    /\ cal = Epoch
    /\ dayNumber = J2000
    /\ computedDay = julianDay(Epoch.year, Epoch.month, Epoch.day)
    /\ shownSun = UnitY
    /\ shownNormal = UnitY
    /\ incidence = NotShown
    /\ SolarInit(0)

\* setState((prev) => ({ ...prev, [field]: value })): the spread makes the
\* state a new object, whatever the field held before, and the component
\* is rendered again.
SetField(field, value) ==
    /\ state' = [state EXCEPT ![field] = value]
    /\ Render(state', FALSE)
    /\ UNCHANGED <<machineTz, calendarVars, metricsVars, solarVars>>

\* Lines 409-414.
SetLatitude == \E v \in LatitudeInputs : SetField("latitude", v)

\* Lines 424-429.
SetLongitude == \E v \in LongitudeInputs : SetField("longitude", v)

\* Lines 439-444.
SetUtcOffset == \E v \in UtcOffsetInputs : SetField("utcOffset", v)

\* Lines 454-456.
SetDate == \E v \in DateInputs : SetField("date", v)

\* Lines 465-467.
SetTime == \E v \in TimeInputs : SetField("time", v)

\* Lines 478-483.
SetAlbedo == \E v \in AlbedoInputs : SetField("albedo", v)

\* Lines 504-506.
SetTrackingAuto == SetField("trackingMode", "auto")

\* Lines 517-519.
SetTrackingManual == SetField("trackingMode", "manual")

\* Lines 533-538.
SetPanelWidth == \E v \in PanelWidthInputs : SetField("panelWidth", v)

\* Lines 549-554.
SetPanelHeight == \E v \in PanelHeightInputs : SetField("panelHeight", v)

\* Lines 565-570.
SetPanelElevation == \E v \in PanelElevationInputs : SetField("panelElevation", v)

\* Lines 583-589: the slider is disabled in automatic mode.
SetManualYaw ==
    /\ state.trackingMode # "auto"
    /\ \E v \in ManualYawInputs : SetField("manualYaw", v)

\* Lines 603-609: the slider is disabled in automatic mode.
SetManualPitch ==
    /\ state.trackingMode # "auto"
    /\ \E v \in ManualPitchInputs : SetField("manualPitch", v)

Next ==
    \/ SetLatitude
    \/ SetLongitude
    \/ SetUtcOffset
    \/ SetDate
    \/ SetTime
    \/ SetAlbedo
    \/ SetTrackingAuto
    \/ SetTrackingManual
    \/ SetPanelWidth
    \/ SetPanelHeight
    \/ SetPanelElevation
    \/ SetManualYaw
    \/ SetManualPitch

Spec == Init /\ [][Next]_vars

--------------------------------------------------------------------------
(* SpecJulianDay: the date field stepped day by day through the Gregorian  *)
(* calendar, the days counted from 2000-01-01, whose Julian Day Number is  *)
(* 2451545.                                                                *)

\* The years walked are 2000 - YearSpan .. 2000 + YearSpan.
YearSpan == 101

IsLeapYear(y) == (y % 4 = 0 /\ y % 100 # 0) \/ y % 400 = 0

DaysInMonth(y, m) ==
    IF m = 2 THEN (IF IsLeapYear(y) THEN 29 ELSE 28)
    ELSE IF m \in {4, 6, 9, 11} THEN 30
    ELSE 31

\* The calendar day after c.
Tomorrow(c) ==
    IF c.day < DaysInMonth(c.year, c.month) THEN [c EXCEPT !.day = c.day + 1]
    ELSE IF c.month < 12 THEN [c EXCEPT !.month = c.month + 1, !.day = 1]
    ELSE [year |-> c.year + 1, month |-> 1, day |-> 1]

\* The calendar day before c.
Yesterday(c) ==
    IF c.day > 1 THEN [c EXCEPT !.day = c.day - 1]
    ELSE IF c.month > 1
         THEN [c EXCEPT !.month = c.month - 1,
                        !.day = DaysInMonth(c.year, c.month - 1)]
    ELSE [year |-> c.year - 1, month |-> 12, day |-> 31]

InitJulianDay ==
    /\ ComponentInit
    /\ machineTz = 0
    /\ cal = Epoch
    /\ dayNumber = J2000
    /\ computedDay = julianDay(Epoch.year, Epoch.month, Epoch.day)
    /\ shownSun = UnitY
    /\ shownNormal = UnitY
    /\ incidence = NotShown
    /\ SolarInit(0)

\* The date field stepped up by one day.
StepDateUp ==
    /\ Tomorrow(cal).year <= Epoch.year + YearSpan
    /\ cal' = Tomorrow(cal)
    /\ dayNumber' = dayNumber + 1
    /\ computedDay' = julianDay(cal'.year, cal'.month, cal'.day)
    /\ UNCHANGED <<componentVars, metricsVars, solarVars>>

\* The date field stepped down by one day.
StepDateDown ==
    /\ Yesterday(cal).year >= Epoch.year - YearSpan
    /\ cal' = Yesterday(cal)
    /\ dayNumber' = dayNumber - 1
    /\ computedDay' = julianDay(cal'.year, cal'.month, cal'.day)
    /\ UNCHANGED <<componentVars, metricsVars, solarVars>>

NextJulianDay == StepDateUp \/ StepDateDown

SpecJulianDay == InitJulianDay /\ [][NextJulianDay]_vars

--------------------------------------------------------------------------
(* SpecMetrics: Metrics applied to pairs of unit vectors.                  *)

\* Unit vectors whose squared components sum to exactly 1 at Scale.
ExactTriples ==
    {<<Scale, 0, 0>>, <<6000, 8000, 0>>, <<3600, 4800, 8000>>}

Signs == {-1, 1}

ExactUnitVectors ==
    {[x |-> sx * t[p[1]], y |-> sy * t[p[2]], z |-> sz * t[p[3]]] :
        t \in ExactTriples, sx \in Signs, sy \in Signs, sz \in Signs,
        p \in {<<1, 2, 3>>, <<1, 3, 2>>, <<2, 1, 3>>, <<2, 3, 1>>, <<3, 1, 2>>, <<3, 2, 1>>}}

\* Unit vectors as the two functions build them, from angles in degrees.
BuiltUnitVectors ==
    {DirectionVector(degToRad(45 * Scale * a), degToRad(e)) :
        a \in 0..7, e \in {ElevationFloor, 30 * Scale, 60 * Scale}}

UnitVectors == ExactUnitVectors \cup BuiltUnitVectors

InitMetrics ==
    /\ ComponentInit
    /\ machineTz = 0
    /\ cal = Epoch
    /\ dayNumber = J2000
    /\ computedDay = julianDay(Epoch.year, Epoch.month, Epoch.day)
    /\ shownSun \in UnitVectors
    /\ shownNormal \in UnitVectors
    /\ incidence = NotShown
    /\ SolarInit(0)

\* Lines 327-331, 355 and 361: Metrics computes and shows the two figures.
ShowMetrics ==
    /\ ~incidence.shown
    /\ incidence' = [shown |-> TRUE,
                     angleDeg |-> Metrics(shownSun, shownNormal).angleDeg,
                     effectiveIrradiance |->
                        Metrics(shownSun, shownNormal).effectiveIrradiance]
    /\ UNCHANGED <<componentVars, calendarVars, shownSun, shownNormal, solarVars>>

NextMetrics == ShowMetrics

SpecMetrics == InitMetrics /\ [][NextMetrics]_vars

--------------------------------------------------------------------------
(* SpecSolarTime: lines 146-151 on the sums the form can produce.  The sum *)
(* of lines 146-147 moves with the three fields it reads: a minute of the   *)
(* time field, a step of 0.1 degree of longitude (line 430, 0.4 minute), a  *)
(* step of half an hour of the UTC offset (line 445, 30 minutes).           *)

\* The sums walked lie within SolarSpan days either side of midnight.
SolarSpan == 2

\* The equation of time leaves any fraction of a minute in the sum: the
\* walk starts within SolarJitter units of 0.0001 minute of midnight.
SolarJitter == 2

\* The minutes of a day (line 148).
DayMinutes == 1440 * Scale

\* What a step of a field adds to the sum, up or down: a minute of the
\* time, 0.1 degree of longitude, half an hour of UTC offset.
SolarSteps ==
    {d * s : d \in {Scale, 4 * (Scale \div 10), 60 * (Scale \div 2)}, s \in {-1, 1}}

InitSolarTime ==
    /\ ComponentInit
    /\ machineTz = 0
    /\ cal = Epoch
    /\ dayNumber = J2000
    /\ computedDay = julianDay(Epoch.year, Epoch.month, Epoch.day)
    /\ shownSun = UnitY
    /\ shownNormal = UnitY
    /\ incidence = NotShown
    /\ \E t \in -SolarJitter..SolarJitter : SolarInit(t)

\* Lines 146-151 run on the sum t.
SolarShift(t) ==
    /\ Abs(t) <= SolarSpan * DayMinutes
    /\ solarRaw' = t
    /\ solarTime' = trueSolarTimeOf(t)
    /\ solarHourAngle' = hourAngleOf(solarTime')
    /\ UNCHANGED <<componentVars, calendarVars, metricsVars>>

\* One of the three fields stepped, and the render that follows.
NextSolarTime == \E d \in SolarSteps : SolarShift(solarRaw + d)

SpecSolarTime == InitSolarTime /\ [][NextSolarTime]_vars

--------------------------------------------------------------------------
(* Properties.                                                             *)

\* The locals of calculateSunPosition at the current state.
Locals == SunCalcOf(state, machineTz)

\* lo <= x <= hi for a number x; NaN lies in no range.
InRange(x, lo, hi) == ~IsNaN(x) /\ lo <= x /\ x <= hi

\* THREE.MathUtils.clamp on numbers.
Clamp(x, lo, hi) == IF x < lo THEN lo ELSE IF x > hi THEN hi ELSE x

FullTurn == 360 * Scale

\* What dateTime contributes to the Julian Day and what the function
\* returns, on a machine at offset tz.
DayAndResult(tz) ==
    <<SunCalcOf(state, tz).year, SunCalcOf(state, tz).month, SunCalcOf(state, tz).day,
      SunCalcOf(state, tz).utcHours, SunCalcOf(state, tz).utcMinutes,
      SunCalcOf(state, tz).azimuth, SunCalcOf(state, tz).elevation>>

\* C1: for fixed latitude, longitude, utcOffset, date and time, the
\* calendar day and the hour and minute that enter the Julian Day, and the
\* returned azimuth and elevation, are the same on every machine offset.
C1_SameOnEveryMachine ==
    \A tz \in MachineOffsets : DayAndResult(tz) = DayAndResult(machineTz)

\* The sun position lies in the ranges of the SunPosition type: azimuth
\* in [0, 360), elevation in [-5, 90].
SunInRange ==
    /\ InRange(sun.azimuth, 0, FullTurn - 1)
    /\ InRange(sun.elevation, ElevationFloor, 90 * Scale)

\* C2: calculateSunPosition returns an azimuth in [0, 360) and an
\* elevation in [-5, 90], for every input.
C2_AnglesInRange == SunInRange

\* C3: the argument of line 160's acos lies in [-1, 1], and the zenith
\* and the elevation are numbers, never NaN.
C3_ZenithDefined ==
    /\ InRange(MathMax(Locals.cosZenith, -Scale), -Scale, Scale)
    /\ ~IsNaN(Locals.zenith)
    /\ ~IsNaN(sun.elevation)

\* C4 as stated: in manual mode the pose getPanelNormal returns has
\* pitch = clamp(manualPitch, 0, 90) and yaw = manualYaw normalised into
\* [0, 360).
C4_PoseClamped ==
    state.trackingMode = "manual" =>
        /\ panel.pitch = Clamp(state.manualPitch, 0, 90 * Scale)
        /\ panel.yaw = state.manualYaw % FullTurn

\* C4: in manual mode getPanelNormal returns manualPitch and manualYaw as
\* they are; PanelAssembly applies clamp(manualPitch, 0, 90) and manualYaw
\* normalised into [0, 360).
C4_ManualPose ==
    state.trackingMode = "manual" =>
        /\ panel.pitch = state.manualPitch
        /\ panel.yaw = state.manualYaw
        /\ assembly.pitch = Clamp(state.manualPitch, 0, 90 * Scale)
        /\ assembly.yaw = state.manualYaw % FullTurn

\* C4's case: the yaw slider at 360 in manual mode.
C4_Witness ==
    /\ state.trackingMode = "manual"
    /\ state.manualYaw = FullTurn
    /\ panel.yaw = FullTurn
    /\ assembly.yaw = 0

\* C5 as stated: with the sun position in range, the pose getPanelNormal
\* returns has pitch in [0, 90] and yaw in [0, 360).
C5_PoseInRange ==
    SunInRange =>
        /\ InRange(panel.pitch, 0, 90 * Scale)
        /\ InRange(panel.yaw, 0, FullTurn - 1)

\* C5: with the sun position in range, or in manual mode, the pose
\* getPanelNormal returns has pitch in [-5, 90] and yaw in [0, 360], and
\* PanelAssembly applies a pitch in [0, 90] and a yaw in [0, 360).
C5_PoseRanges ==
    (SunInRange \/ state.trackingMode = "manual") =>
        /\ InRange(panel.pitch, ElevationFloor, 90 * Scale)
        /\ InRange(panel.yaw, 0, FullTurn)
        /\ InRange(assembly.pitch, 0, 90 * Scale)
        /\ InRange(assembly.yaw, 0, FullTurn - 1)

\* C5's case: automatic tracking of a sun below the horizon.
C5_Witness ==
    /\ state.trackingMode = "auto"
    /\ SunInRange
    /\ sun.elevation < 0
    /\ panel.pitch = sun.elevation
    /\ assembly.pitch = 0

\* C6: in automatic mode getPanelNormal returns the sun's elevation as
\* pitch and the sun's azimuth as yaw, whatever the manual sliders hold,
\* and the panel normal is the vector of the same two angles.
C6_AutoTracksSun ==
    state.trackingMode = "auto" =>
        /\ panel.pitch = sun.elevation
        /\ panel.yaw = sun.azimuth
        /\ panel.vector = DirectionVector(degToRad(sun.azimuth), degToRad(sun.elevation))
        /\ panel.vector = sun.vector

\* C6's case: automatic mode after the manual sliders were moved away from
\* the sun's angles.
C6_Witness ==
    /\ state.trackingMode = "auto"
    /\ SunInRange
    /\ state.manualPitch = 90 * Scale
    /\ state.manualYaw = 0
    /\ state.manualPitch # sun.elevation
    /\ state.manualYaw # sun.azimuth
    /\ panel.pitch = sun.elevation

\* The vector v has length exactly 1.
IsUnit(v) == v.x * v.x + v.y * v.y + v.z * v.z = Scale * Scale

Vector3Negate(v) == [x |-> -v.x, y |-> -v.y, z |-> -v.z]

\* C7: Metrics gives 0 degrees and efficiency 1 when the panel normal is
\* the sun direction, 180 degrees and efficiency 0 when it is the negated
\* sun direction, and an efficiency in [0, 1] for every pair of vectors.
C7_IncidenceMetrics ==
    incidence.shown =>
        /\ InRange(incidence.effectiveIrradiance, 0, Scale)
        /\ InRange(incidence.angleDeg, 0, 180 * Scale)
        /\ (IsUnit(shownSun) /\ shownNormal = shownSun) =>
                incidence.angleDeg = 0 /\ incidence.effectiveIrradiance = Scale
        /\ (IsUnit(shownSun) /\ shownNormal = Vector3Negate(shownSun)) =>
                incidence.angleDeg = 180 * Scale /\ incidence.effectiveIrradiance = 0

\* C7's case: the metrics of a panel facing away from the sun.
C7_Witness ==
    /\ incidence.shown
    /\ IsUnit(shownSun)
    /\ shownSun.x # 0 /\ shownSun.y # 0 /\ shownSun.z # 0
    /\ shownNormal = Vector3Negate(shownSun)
    /\ incidence.angleDeg = 180 * Scale
    /\ incidence.effectiveIrradiance = 0

\* |azDenominator| <= 0.001 as JavaScript compares: false for NaN.
AzDenominatorSmall ==
    ~IsNaN(Locals.azDenominator) /\ Abs(Locals.azDenominator) <= AzDenominatorMin

\* The acos of the clamped ratio, reflected when sin(hourAngle) > 0; NaN
\* when the zenith is.
AzimuthByRatio ==
    IF IsNaN(Locals.zenith) THEN NaN
    ELSE azimuthByAcos(Locals.latRad, Locals.declRad, Locals.haRad, Locals.zenith,
                       Locals.azDenominator)

C9_OnlyTheFiveInputs ==
    \A tz \in MachineOffsets : SunPositionOf(SunCalcOf(state, tz)) = sun

\* C10: julianDay of lines 60-70 is the Gregorian Julian Day Number: it is
\* 2451545 for 2000-01-01 and moves by one with every calendar day,
\* through January and February, leap years and century years.
C10_JulianDayNumber ==
    /\ computedDay = dayNumber
    /\ (cal = Epoch => computedDay = 2451545)

\* C10's case: the first of March after the February of 2100, a century
\* year that is no leap year.
C10_Witness ==
    /\ cal = [year |-> 2100, month |-> 3, day |-> 1]
    /\ computedDay = 2488129
    /\ computedDay = dayNumber

\* a modulo b as a floor-modulo: a - b * floor(a / b), for b > 0.
FloorMod(a, b) == a - b * MathFloorDiv(a, b)

\* C11: for every sum of lines 146-147, negative or beyond one day, the
\* true solar time after line 148 lies in [0, 1440) and is the
\* floor-modulo of the sum by 1440, and the hour angle of lines 150-151
\* lies in [-180, 180).
C11_SolarTimeWrapped ==
    /\ InRange(solarTime, 0, DayMinutes - 1)
    /\ solarTime = FloorMod(solarRaw, DayMinutes)
    /\ InRange(solarHourAngle, -180 * Scale, 180 * Scale - 1)
    /\ solarHourAngle = MathFloorDiv(solarTime, 4) - 180 * Scale

\* C11's case: a sum just more than a day below zero, wrapped to the last
\* instant of the day, where the hour angle is just below 180.
C11_Witness ==
    /\ solarRaw = -DayMinutes - 1
    /\ solarTime = DayMinutes - 1
    /\ solarHourAngle = 180 * Scale - 1

\* What is shown is the derivation chain run on the current state, whose
\* table entry is tabled: PoseOf is getPanelNormal(state, sun) and Rendered
\* holds Metrics(sun.vector, panel.vector) and PanelAssembly(panel.pitch,
\* panel.yaw).
ShowsRenderOf(tabled) ==
    /\ sun = SunPositionOf(SunCalcOf(state, machineTz))
    /\ panel = PoseOf(state, sun, tabled)
    /\ metrics = Rendered(sun, panel, tabled).metrics
    /\ assembly = Rendered(sun, panel, tabled).assembly

\* C12: after any sequence of input-change events, what a render shows
\* is derived from the current state alone: sun is
\* calculateSunPosition(state), panel is getPanelNormal(state, sun), the
\* metrics are those of (sun.vector, panel.vector) and the angles of
\* PanelAssembly those of the panel.
C12_RenderOfCurrentState == ShowsRenderOf(DeriveOf(state, machineTz))

\* C12's case: after the latitude, the date and the time were changed and
\* the panel was set by hand, the sun shown is the one of the new state
\* and no longer the one of the first render.
C12_Witness ==
    /\ state.latitude = 90 * Scale
    /\ state.date = [year |-> 2023, month |-> 12, day |-> 31]
    /\ state.time = [hour |-> 23, minute |-> 30]
    /\ state.trackingMode = "manual"
    /\ state.manualYaw = 0
    /\ sun = SunPositionOf(SunCalcOf(state, machineTz))
    /\ \A now \in NowInputs :
          sun # SunPositionOf(SunCalcOf(InitialState(now, machineTz), machineTz))
    /\ panel.yaw = 0
    /\ metrics = Metrics(sun.vector, panel.vector)

====
